---------------------------- MODULE Spec2Model ----------------------------
(***************************************************************************)
(* Model of examples/batch_processing/batch_calculator_agent.py:           *)
(* BatchCalculatorAgent, its request builder, its calculator, its tool     *)
(* dispatcher and its batch monitor (the sleep-poll loop).                 *)
(*                                                                         *)
(* The specifications share the variables:                                 *)
(*   SpecCalc   _perform_calculation applied to bounded inputs             *)
(*   SpecTool   _process_tool_use applied to bounded message payloads      *)
(*   SpecBuild  _create_batch_requests applied to bounded question lists   *)
(*   Spec       _monitor_batch_progress against a service that may answer  *)
(*              with any status and any enumeration of results             *)
(*   SpecOwn    as Spec, the service enumerating only submitted custom_ids *)
(*   SpecRecord the monitor against a one-request batch whose succeeded    *)
(*              result carries any message payload                         *)
(*   LiveSpec   the monitor under fair scheduling against a service whose  *)
(*              job ends and that enumerates one succeeded result per      *)
(*              submitted request                                          *)
(***************************************************************************)
EXTENDS Integers, Sequences, FiniteSets, TLC

VARIABLES
    \* _perform_calculation: arguments and outcome
    operation, numbers, calcOut,
    \* _process_tool_use: argument and outcome
    message, toolOut,
    \* _create_batch_requests: argument and return value
    questions, batch_requests,
    \* _monitor_batch_progress: locals, position, and the service's job
    pc, expected_count, results, processed_count, batch_status, pending,
    lastCall, processing_status

calcVars  == <<operation, numbers, calcOut>>
toolVars  == <<message, toolOut>>
buildVars == <<questions, batch_requests>>
monVars   == <<pc, expected_count, results, processed_count, batch_status,
               pending, lastCall, processing_status>>
vars      == <<calcVars, toolVars, buildVars, monVars>>

-----------------------------------------------------------------------------
(* Bounds of the model *)

\* longest numbers list handed to the calculator
MaxLen == 3
\* numbers range over -MaxNum .. MaxNum
MaxNum == 2
\* longest content list of a message payload
MaxItems == 2
\* longest question list handed to the request builder
MaxQuestions == 11
\* largest expected_count (number of submitted requests) of a monitored batch
MaxN == 2
\* longest enumeration the service returns for one results() call
MaxEnum == 2

\* All sequences over S of length at most n
BoundedSeq(S, n) == UNION {[1..k -> S] : k \in 0..n}

-----------------------------------------------------------------------------
(* Python values *)

\* A number as Python holds it: an int (float = FALSE) or a float.  Floats are
\* kept as exact reduced fractions n/d, d > 0; rounding is not modelled.
Num(n, d, f) == [n |-> n, d |-> d, float |-> f]
PyInt(i) == Num(i, 1, FALSE)

Abs(x) == IF x < 0 THEN -x ELSE x

RECURSIVE GCD(_, _)
GCD(a, b) == IF b = 0 THEN a ELSE GCD(b, a % b)

\* v / k for an int k # 0: true division, always a float
TrueDiv(v, k) ==
    LET n == IF k < 0 THEN -v.n ELSE v.n
        d == v.d * Abs(k)
        g == GCD(Abs(n), d)
    IN  Num(n \div g, d \div g, TRUE)

\* A Python string built by an f-string: the literal text, the number
\* formatted into it (NoNum when there is none) and the text formatted after it
NoNum == PyInt(0)
Str(text, num, detail) == [text |-> text, num |-> num, detail |-> detail]
Lit(text) == Str(text, NoNum, <<>>)

\* What a call produces: a returned value, or a raised exception with its
\* str(e).  none is a placeholder of the return type.
Return(v) == [kind |-> "return", val |-> v, exc |-> "", msg |-> <<>>]
Raise(e, m, none) == [kind |-> "raise", val |-> none, exc |-> e, msg |-> m]

-----------------------------------------------------------------------------
(* _perform_calculation, lines 69-95 *)

Operations == {"add", "subtract", "multiply", "divide", "modulo"}
\* 8 is kept in the range for divide([8, 2])
Numbers == (-MaxNum .. MaxNum) \cup {8}

\* sum(xs): the builtin adds left to right, starting from 0
RECURSIVE SumLoop(_, _, _)
SumLoop(xs, i, acc) ==
    IF i > Len(xs) THEN acc ELSE SumLoop(xs, i + 1, acc + xs[i])

\* lines 85-88: result = 1; for num in numbers: result *= num
RECURSIVE MultiplyLoop(_, _, _)
MultiplyLoop(xs, i, result) ==
    IF i > Len(xs) THEN result ELSE MultiplyLoop(xs, i + 1, result * xs[i])

\* lines 91-93: for num in numbers[1:]: result /= num
RECURSIVE DivideLoop(_, _, _)
DivideLoop(xs, i, result) ==
    IF i > Len(xs) THEN Return(result)
    ELSE IF xs[i] = 0
         THEN Raise("ZeroDivisionError", <<"division by zero">>, NoNum)
         ELSE DivideLoop(xs, i + 1, TrueDiv(result, xs[i]))

\* subtract takes the sum of the whole list, not of numbers[1:]
PerformCalculation_WholeSum(op, xs) ==
    CASE op = "add" -> Return(PyInt(SumLoop(xs, 1, 0)))
      [] op = "subtract" ->
            IF Len(xs) = 0
            THEN Raise("IndexError", <<"list index out of range">>, NoNum)
            ELSE Return(PyInt(xs[1] - SumLoop(xs, 1, 0)))
      [] op = "multiply" -> Return(PyInt(MultiplyLoop(xs, 1, 1)))
      [] op = "divide" ->
            IF Len(xs) = 0
            THEN Raise("IndexError", <<"list index out of range">>, NoNum)
            ELSE DivideLoop(xs, 2, PyInt(xs[1]))
      [] OTHER -> Raise("ValueError", <<"Unsupported operation: ", op>>, NoNum)

PerformCalculation(op, xs) ==
    CASE op = "add" -> Return(PyInt(SumLoop(xs, 1, 0)))
      [] op = "subtract" ->
            IF Len(xs) = 0
            THEN Raise("IndexError", <<"list index out of range">>, NoNum)
            ELSE Return(PyInt(xs[1] - SumLoop(Tail(xs), 1, 0)))
      [] op = "multiply" -> Return(PyInt(MultiplyLoop(xs, 1, 1)))
      [] op = "divide" ->
            IF Len(xs) = 0
            THEN Raise("IndexError", <<"list index out of range">>, NoNum)
            ELSE DivideLoop(xs, 2, PyInt(xs[1]))
      [] OTHER -> Raise("ValueError", <<"Unsupported operation: ", op>>, NoNum)

\* The calculator applied to one bounded input
CalcIdle == [kind |-> "idle", val |-> NoNum, exc |-> "", msg |-> <<>>]

Calculate ==
    /\ calcOut.kind = "idle"
    /\ calcOut' = PerformCalculation(operation, numbers)
    /\ UNCHANGED <<operation, numbers, toolVars, buildVars, monVars>>

-----------------------------------------------------------------------------
(* Message payloads handed to _process_tool_use *)

\* content.input of a tool_use item: a dict that may lack either key
ToolNumberLists == {<<>>, <<2>>, <<2, 1>>, <<2, 0>>}

ToolInputs ==
    {[hasOperation |-> TRUE, operation |-> op, hasNumbers |-> TRUE, numbers |-> xs] :
        op \in Operations, xs \in ToolNumberLists}
    \cup {[hasOperation |-> FALSE, operation |-> "", hasNumbers |-> TRUE, numbers |-> xs] :
        xs \in ToolNumberLists}
    \cup {[hasOperation |-> TRUE, operation |-> op, hasNumbers |-> FALSE, numbers |-> <<>>] :
        op \in Operations}
    \cup {[hasOperation |-> FALSE, operation |-> "", hasNumbers |-> FALSE, numbers |-> <<>>]}

NoInput == [hasOperation |-> FALSE, operation |-> "", hasNumbers |-> FALSE, numbers |-> <<>>]

\* A content item: it may lack the type attribute; a tool_use item may lack
\* its name/input attributes
Item(hasType, type, hasInput, input) ==
    [hasType |-> hasType, type |-> type, hasInput |-> hasInput, input |-> input]

UntypedItem == Item(FALSE, "", FALSE, NoInput)
TextItem    == Item(TRUE, "text", FALSE, NoInput)
ToolUse(input) == Item(TRUE, "tool_use", TRUE, input)

Items ==
    {UntypedItem, TextItem, Item(TRUE, "tool_use", FALSE, NoInput)}
    \cup {ToolUse(input) : input \in ToolInputs}

\* A message: without a content attribute, or with content None, a
\* non-iterable scalar, or a list of items
Message(hasContent, kind, items) ==
    [hasContent |-> hasContent, kind |-> kind, items |-> items]

Messages ==
    {Message(FALSE, "absent", <<>>), Message(TRUE, "none", <<>>),
     Message(TRUE, "scalar", <<>>)}
    \cup {Message(TRUE, "list", items) : items \in BoundedSeq(Items, MaxItems)}

-----------------------------------------------------------------------------
(* _process_tool_use, lines 97-128 *)

NoStr == Lit("")

\* the except clause catches ValueError only
TryCalculation_ValueErrorOnly(input) ==
    IF ~input.hasOperation THEN Raise("KeyError", <<"'operation'">>, NoStr)
    ELSE IF ~input.hasNumbers THEN Raise("KeyError", <<"'numbers'">>, NoStr)
    ELSE LET r == PerformCalculation(input.operation, input.numbers)
         IN  IF r.kind = "raise"
             THEN IF r.exc = "ValueError"
                  THEN Return(Str("Error during calculation: ", NoNum, r.msg))
                  ELSE Raise(r.exc, r.msg, NoStr)
             ELSE Return(Str("Result: ", r.val, <<>>))

\* lines 117-126: the try block around the calculation
TryCalculation(input) ==
    IF ~input.hasOperation
    THEN Return(Str("Error during calculation: ", NoNum, <<"'operation'">>))
    ELSE IF ~input.hasNumbers
    THEN Return(Str("Error during calculation: ", NoNum, <<"'numbers'">>))
    ELSE LET r == PerformCalculation(input.operation, input.numbers)
         IN  IF r.kind = "raise"
             THEN Return(Str("Error during calculation: ", NoNum, r.msg))
             ELSE Return(Str("Result: ", r.val, <<>>))

\* lines 110-128: the loop over message.content
RECURSIVE ContentLoop(_, _)
ContentLoop(items, i) ==
    IF i > Len(items) THEN Return(Lit("No tool use found in message"))
    ELSE IF ~items[i].hasType
         THEN Raise("AttributeError", <<"type">>, NoStr)
    ELSE IF items[i].type = "tool_use"
         THEN IF ~items[i].hasInput
              THEN Raise("AttributeError", <<"input">>, NoStr)
              ELSE TryCalculation(items[i].input)
    ELSE ContentLoop(items, i + 1)

ProcessToolUse(m) ==
    IF ~m.hasContent THEN Return(Lit("Error: No content in message"))
    ELSE IF m.kind # "list"
         THEN Raise("TypeError", <<"object is not iterable">>, NoStr)
    ELSE ContentLoop(m.items, 1)

ToolIdle == [kind |-> "idle", val |-> NoStr, exc |-> "", msg |-> <<>>]

Dispatch ==
    /\ toolOut.kind = "idle"
    /\ toolOut' = ProcessToolUse(message)
    /\ UNCHANGED <<message, calcVars, buildVars, monVars>>

-----------------------------------------------------------------------------
(* _create_batch_requests, lines 40-67, and _define_calculator_tool, 17-38 *)

QuestionTexts == {"What is 25 + 17?", ""}

calculator_tool ==
    [name |-> "calculate",
     enum |-> <<"add", "subtract", "multiply", "divide">>,
     required |-> <<"operation", "numbers">>]

system_prompt ==
    "You are a helpful calculator assistant. When users ask you to perform calculations, use the calculate tool directly without explaining what you're going to do first."

\* str(i) for i >= 0: the decimal digits, most significant first
Digit(d) == <<"0", "1", "2", "3", "4", "5", "6", "7", "8", "9">>[d + 1]

RECURSIVE PyStr(_)
PyStr(i) == IF i < 10 THEN <<Digit(i)>> ELSE PyStr(i \div 10) \o <<Digit(i % 10)>>

\* f"calculation_{i}"
CustomId(i) == <<"calculation_">> \o PyStr(i)

\* lines 56-65: the request built for the i-th (zero-based) question
BatchRequest(i, question) ==
    [custom_id |-> CustomId(i),
     params |-> [model |-> "claude-3-5-sonnet-20241022",
                 max_tokens |-> 1024,
                 tools |-> <<calculator_tool>>,
                 system |-> system_prompt,
                 messages |-> <<[role |-> "user", content |-> question]>>]]

\* the index counts from one
CreateBatchRequests_OneBased(qs) == [k \in 1..Len(qs) |-> BatchRequest(k, qs[k])]

\* lines 55-67: one request per enumerate(questions) pair
CreateBatchRequests(qs) == [k \in 1..Len(qs) |-> BatchRequest(k - 1, qs[k])]

NotBuilt == <<[custom_id |-> <<"unbuilt">>]>>

Build ==
    /\ batch_requests = NotBuilt
    /\ batch_requests' = CreateBatchRequests(questions)
    /\ UNCHANGED <<questions, calcVars, toolVars, monVars>>

-----------------------------------------------------------------------------
(* The external batch service, as the monitor sees it *)

\* custom_ids of the n submitted requests
Submitted(n) == {CustomId(i) : i \in 0..(n - 1)}

\* a custom_id no request of the batch carries
ForeignId == <<"other">>

AllIds == Submitted(MaxN) \cup {ForeignId}

\* messages of succeeded results: a calculation, an unsupported operation,
\* and a payload whose content is None
MsgAdd    == Message(TRUE, "list", <<ToolUse(
                [hasOperation |-> TRUE, operation |-> "add",
                 hasNumbers |-> TRUE, numbers |-> <<2, 1>>])>>)
MsgModulo == Message(TRUE, "list", <<ToolUse(
                [hasOperation |-> TRUE, operation |-> "modulo",
                 hasNumbers |-> TRUE, numbers |-> <<2, 1>>])>>)
MsgNone   == Message(TRUE, "none", <<>>)
NoMessage == Message(FALSE, "absent", <<>>)

SucceededMessages == {MsgAdd, MsgModulo, MsgNone}

\* one enumerated result: {custom_id, result.type, result.message}
BatchResult(id, type, m) == [custom_id |-> id, type |-> type, message |-> m]

ResultsOver(ids) ==
    {BatchResult(id, "succeeded", m) : id \in ids, m \in SucceededMessages}
    \cup {BatchResult(id, "failed", NoMessage) : id \in ids}

\* any enumeration, duplicates and any order included
AnyEnumerations(ids) == BoundedSeq(ResultsOver(ids), MaxEnum)

\* one succeeded result per submitted request
GoodEnumerations(n) ==
    {e \in [1..n -> ResultsOver(Submitted(n))] :
        \A k \in 1..n : e[k].custom_id = CustomId(k - 1) /\ e[k].type = "succeeded"}

\* part of such an enumeration: the results the service has ready so far
PartialEnumerations(n) ==
    {SelectSeq(e, LAMBDA r : r.custom_id \in ids) :
        e \in GoodEnumerations(n), ids \in SUBSET Submitted(n)}

-----------------------------------------------------------------------------
(* _monitor_batch_progress, lines 130-162 *)

\* the loop stops one result early
LoopCond_OneEarly(count, expected) == count + 1 < expected

\* line 144 (the while test)
LoopCond(count, expected) == count < expected

\* results are enumerated whatever the status
IsEnded_Always(status) == TRUE

\* line 149
IsEnded(status) == status = "ended"

\* the outcome is not looked at
ShouldRecord_AnyOutcome(result, map) == result.custom_id \notin DOMAIN map

\* a custom_id already recorded is recorded again
ShouldRecord_Again(result, map) == result.type = "succeeded"

\* line 152
ShouldRecord(result, map) ==
    result.custom_id \notin DOMAIN map /\ result.type = "succeeded"

\* line 154: results[custom_id] = final_response (a dict assignment)
Assign(map, key, value) ==
    [k \in DOMAIN map \cup {key} |-> IF k = key THEN value ELSE map[k]]

\* line 158
SleepCond(count, expected) == count < expected

EmptyMap == [k \in {} |-> NoStr]

\* line 144: the loop is entered again, or line 162 returns results
WhileTest ==
    /\ pc = "while"
    /\ pc' = IF LoopCond(processed_count, expected_count) THEN "retrieve" ELSE "returned"
    /\ UNCHANGED <<expected_count, results, processed_count, batch_status,
                   pending, lastCall, processing_status>>
    /\ UNCHANGED <<calcVars, toolVars, buildVars>>

\* line 146: batches.retrieve(batch_id) reads the job's status
Retrieve ==
    /\ pc = "retrieve"
    /\ batch_status' = processing_status
    /\ lastCall' = "retrieve"
    /\ pc' = "if_ended"
    /\ UNCHANGED <<expected_count, results, processed_count, pending, processing_status>>
    /\ UNCHANGED <<calcVars, toolVars, buildVars>>

\* lines 149-151, status "ended": batches.results(batch_id) enumerates
ListResults(enumerations) ==
    /\ pc = "if_ended"
    /\ IsEnded(batch_status)
    /\ \E e \in enumerations : pending' = e
    /\ lastCall' = "results"
    /\ pc' = "for"
    /\ UNCHANGED <<expected_count, results, processed_count, batch_status,
                   processing_status>>
    /\ UNCHANGED <<calcVars, toolVars, buildVars>>

\* line 149, any other status: the body of the if is skipped
NotEnded ==
    /\ pc = "if_ended"
    /\ ~IsEnded(batch_status)
    /\ pc' = "if_sleep"
    /\ UNCHANGED <<expected_count, results, processed_count, batch_status,
                   pending, lastCall, processing_status>>
    /\ UNCHANGED <<calcVars, toolVars, buildVars>>

\* lines 152-156: a new succeeded result is decoded and recorded
ForRecord ==
    /\ pc = "for"
    /\ pending # <<>>
    /\ ShouldRecord(Head(pending), results)
    /\ LET final_response == ProcessToolUse(Head(pending).message)
       IN  /\ final_response.kind = "return"
           /\ results' = Assign(results, Head(pending).custom_id, final_response.val)
    /\ processed_count' = processed_count + 1
    /\ pending' = Tail(pending)
    /\ UNCHANGED <<pc, expected_count, batch_status, lastCall, processing_status>>
    /\ UNCHANGED <<calcVars, toolVars, buildVars>>

\* line 153: _process_tool_use raises; the exception leaves the monitor
ForRaise ==
    /\ pc = "for"
    /\ pending # <<>>
    /\ ShouldRecord(Head(pending), results)
    /\ ProcessToolUse(Head(pending).message).kind = "raise"
    /\ pc' = "raised"
    /\ UNCHANGED <<expected_count, results, processed_count, batch_status,
                   pending, lastCall, processing_status>>
    /\ UNCHANGED <<calcVars, toolVars, buildVars>>

\* line 152 false: the result is passed over
ForSkip ==
    /\ pc = "for"
    /\ pending # <<>>
    /\ ~ShouldRecord(Head(pending), results)
    /\ pending' = Tail(pending)
    /\ UNCHANGED <<pc, expected_count, results, processed_count, batch_status,
                   lastCall, processing_status>>
    /\ UNCHANGED <<calcVars, toolVars, buildVars>>

\* line 151: the enumeration is exhausted
ForEnd ==
    /\ pc = "for"
    /\ pending = <<>>
    /\ pc' = "if_sleep"
    /\ UNCHANGED <<expected_count, results, processed_count, batch_status,
                   pending, lastCall, processing_status>>
    /\ UNCHANGED <<calcVars, toolVars, buildVars>>

\* line 158
IfSleep ==
    /\ pc = "if_sleep"
    /\ pc' = IF SleepCond(processed_count, expected_count) THEN "sleep" ELSE "while"
    /\ UNCHANGED <<expected_count, results, processed_count, batch_status,
                   pending, lastCall, processing_status>>
    /\ UNCHANGED <<calcVars, toolVars, buildVars>>

\* line 159: await asyncio.sleep(2) completes
Sleep ==
    /\ pc = "sleep"
    /\ lastCall' = "sleep"
    /\ pc' = "while"
    /\ UNCHANGED <<expected_count, results, processed_count, batch_status,
                   pending, processing_status>>
    /\ UNCHANGED <<calcVars, toolVars, buildVars>>

\* the service finishes the job: processing_status becomes "ended"
JobEnds ==
    /\ processing_status = "in_progress"
    /\ processing_status' = "ended"
    /\ UNCHANGED <<pc, expected_count, results, processed_count, batch_status,
                   pending, lastCall>>
    /\ UNCHANGED <<calcVars, toolVars, buildVars>>

Monitor(enumerations) ==
    \/ WhileTest
    \/ Retrieve
    \/ ListResults(enumerations)
    \/ NotEnded
    \/ ForRecord
    \/ ForRaise
    \/ ForSkip
    \/ ForEnd
    \/ IfSleep
    \/ Sleep

-----------------------------------------------------------------------------
(* Specifications *)

CalcRest  == operation = "add" /\ numbers = <<>> /\ calcOut = CalcIdle
ToolRest  == message = NoMessage /\ toolOut = ToolIdle
BuildRest == questions = <<>> /\ batch_requests = NotBuilt
MonRest   ==
    /\ pc = "returned" /\ expected_count = 0 /\ results = EmptyMap
    /\ processed_count = 0 /\ batch_status = "unset" /\ pending = <<>>
    /\ lastCall = "none" /\ processing_status = "ended"

InitCalc ==
    /\ operation \in Operations
    /\ numbers \in BoundedSeq(Numbers, MaxLen)
    /\ calcOut = CalcIdle
    /\ ToolRest /\ BuildRest /\ MonRest

NextCalc == Calculate

SpecCalc == InitCalc /\ [][NextCalc]_vars

InitTool ==
    /\ message \in Messages
    /\ toolOut = ToolIdle
    /\ CalcRest /\ BuildRest /\ MonRest

NextTool == Dispatch

SpecTool == InitTool /\ [][NextTool]_vars

InitBuild ==
    /\ questions \in BoundedSeq(QuestionTexts, MaxQuestions)
    /\ batch_requests = NotBuilt
    /\ CalcRest /\ ToolRest /\ MonRest

NextBuild == Build

SpecBuild == InitBuild /\ [][NextBuild]_vars

\* lines 141-142, called from line 179 with len(questions)
Init ==
    /\ expected_count \in 0..MaxN
    /\ results = EmptyMap
    /\ processed_count = 0
    /\ pc = "while"
    /\ batch_status = "unset"
    /\ pending = <<>>
    /\ lastCall = "none"
    /\ processing_status = "in_progress"
    /\ CalcRest /\ ToolRest /\ BuildRest

Next ==
    \/ Monitor(AnyEnumerations(AllIds))
    \/ JobEnds

Spec == Init /\ [][Next]_vars

NextOwn ==
    \/ Monitor(AnyEnumerations(Submitted(expected_count)))
    \/ JobEnds

SpecOwn == Init /\ [][NextOwn]_vars

NextLive ==
    \/ Monitor(PartialEnumerations(expected_count))
    \/ JobEnds

\* The event loop resumes the monitor after every await (WF on the monitor's
\* steps); the job ends (WF on JobEnds) and the service, polled again and
\* again, comes to enumerate one succeeded result per submitted request (SF).
LiveSpec ==
    /\ Init /\ [][NextLive]_vars
    /\ WF_vars(Monitor(PartialEnumerations(expected_count)))
    /\ WF_vars(JobEnds)
    /\ SF_vars(ListResults(GoodEnumerations(expected_count)))

\* The monitor against a one-request batch whose result is succeeded and
\* carries any message payload
SingleEnumerations ==
    {<<BatchResult(CustomId(0), "succeeded", m)>> : m \in Messages}

NextRecord ==
    \/ Monitor(SingleEnumerations)
    \/ JobEnds

SpecRecord == Init /\ [][NextRecord]_vars

-----------------------------------------------------------------------------
(* Reference operators of the specification's section 4.2 and 8 *)

RECURSIVE RefSum(_)
RefSum(xs) == IF xs = <<>> THEN 0 ELSE Head(xs) + RefSum(Tail(xs))

RECURSIVE RefProduct(_)
RefProduct(xs) == IF xs = <<>> THEN 1 ELSE Head(xs) * RefProduct(Tail(xs))

Front(xs) == SubSeq(xs, 1, Len(xs) - 1)

\* a - b - c, left to right
RECURSIVE RefSubtract(_)
RefSubtract(xs) ==
    IF Len(xs) = 1 THEN xs[1] ELSE RefSubtract(Front(xs)) - xs[Len(xs)]

NoZeroDivisor(xs) == \A k \in 2..Len(xs) : xs[k] # 0

\* v is the fraction first / (product of the divisors), reduced, as a float
IsQuotient(v, xs) ==
    /\ v.d > 0
    /\ v.n * RefProduct(Tail(xs)) = xs[1] * v.d
    /\ GCD(Abs(v.n), v.d) = 1
    /\ v.float = (Len(xs) > 1)

\* the value a digit string denotes
DigitValue(c) == CHOOSE d \in 0..9 : Digit(d) = c

RECURSIVE ParseDecimal(_)
ParseDecimal(ds) ==
    IF Len(ds) = 1 THEN DigitValue(ds[1])
    ELSE 10 * ParseDecimal(Front(ds)) + DigitValue(ds[Len(ds)])

\* the message's first tool_use item is reached and its calculation fails:
\* operation or numbers missing, an operation outside the four, an empty
\* list for subtract/divide, or a zero divisor
FailingInput(input) ==
    \/ ~input.hasOperation
    \/ ~input.hasNumbers
    \/ input.operation \notin {"add", "subtract", "multiply", "divide"}
    \/ input.operation \in {"subtract", "divide"} /\ input.numbers = <<>>
    \/ input.operation = "divide" /\ ~NoZeroDivisor(input.numbers)

CalculationFails(m) ==
    /\ m.hasContent /\ m.kind = "list"
    /\ \E i \in 1..Len(m.items) :
          /\ \A j \in 1..(i - 1) : m.items[j].hasType /\ m.items[j].type # "tool_use"
          /\ m.items[i].hasType /\ m.items[i].type = "tool_use"
          /\ m.items[i].hasInput
          /\ FailingInput(m.items[i].input)

UnsupportedModulo(m) ==
    /\ m.hasContent /\ m.kind = "list" /\ Len(m.items) = 1
    /\ m.items[1].hasType /\ m.items[1].type = "tool_use" /\ m.items[1].hasInput
    /\ m.items[1].input.hasOperation /\ m.items[1].input.hasNumbers
    /\ m.items[1].input.operation = "modulo"

\* the payload has no recognizable content structure
NoRecognizableContent(m) ==
    \/ ~m.hasContent
    \/ m.kind # "list"
    \/ \E i \in 1..Len(m.items) : ~m.items[i].hasType

\* custom_ids the service has enumerated with outcome "succeeded" so far
SucceededSoFar ==
    DOMAIN results
    \cup {pending[i].custom_id : i \in {j \in 1..Len(pending) : pending[j].type = "succeeded"}}

\* the monitor took the step that handles the head of the enumeration
HandlesHead == pc = "for" /\ pending # <<>> /\ <<pc, pending>>' # <<pc, pending>>

-----------------------------------------------------------------------------
(* Claims *)

\* C1 (as stated): the monitor returns only with processed_count equal to
\* expected_count and a ResultMap of exactly expected_count keys.
C1_ReturnsExact ==
    pc = "returned" =>
        /\ processed_count = expected_count
        /\ Cardinality(DOMAIN results) = expected_count

\* C1 (amended): the monitor returns only with processed_count at least
\* expected_count and a ResultMap of exactly processed_count keys; both equal
\* expected_count when every recorded custom_id is a submitted one.
C1_ReturnsAtLeast ==
    pc = "returned" =>
        /\ processed_count >= expected_count
        /\ Cardinality(DOMAIN results) = processed_count
        /\ DOMAIN results \subseteq Submitted(expected_count) =>
                /\ processed_count = expected_count
                /\ Cardinality(DOMAIN results) = expected_count

C1_Witness ==
    /\ pc = "returned" /\ expected_count > 0
    /\ DOMAIN results = Submitted(expected_count)

\* C2: when some submitted request never reaches outcome "succeeded", the
\* monitor neither returns nor ends with an exception.
C2_NeverEnds ==
    pc \in {"returned", "raised"} => Submitted(expected_count) \subseteq SucceededSoFar

\* C3: a custom_id enters the ResultMap only by the step that handles an
\* enumerated result with that custom_id and outcome "succeeded"; a result
\* with any other outcome leaves the ResultMap and processed_count unchanged.
C3_OnlySucceeded ==
    [][/\ \A id \in (DOMAIN results') \ (DOMAIN results) :
             /\ pc = "for" /\ pending # <<>>
             /\ Head(pending).custom_id = id
             /\ Head(pending).type = "succeeded"
       /\ (HandlesHead /\ Head(pending).type # "succeeded") =>
             /\ results' = results
             /\ processed_count' = processed_count
             /\ pc' # "raised"]_vars

C3_Witness ==
    /\ pc = "for" /\ pending # <<>> /\ results # EmptyMap
    /\ Head(pending).type = "failed"
    /\ Head(pending).custom_id \notin DOMAIN results

\* C4: when the job ends and the service comes to enumerate one succeeded
\* result per submitted request, the monitor eventually returns a ResultMap
\* holding every submitted custom_id; with no request it returns without
\* calling the service.
C4_EventuallyReturns ==
    /\ <>(pc = "returned" /\ Submitted(expected_count) \subseteq DOMAIN results)
    /\ [](expected_count = 0 => lastCall = "none")

\* C5: processed_count never decreases, no custom_id leaves the ResultMap,
\* no recorded value changes, and processed_count counts the keys (each
\* custom_id is recorded once).
C5_Monotonic ==
    [][/\ processed_count' >= processed_count
       /\ DOMAIN results \subseteq DOMAIN results'
       /\ \A id \in DOMAIN results : results'[id] = results[id]
       /\ processed_count' = Cardinality(DOMAIN results')]_vars

C5_Witness ==
    /\ pc = "for" /\ pending # <<>>
    /\ Head(pending).type = "succeeded"
    /\ Head(pending).custom_id \in DOMAIN results
    /\ ProcessToolUse(Head(pending).message).kind = "return"
    /\ ProcessToolUse(Head(pending).message).val # results[Head(pending).custom_id]

\* C6: a calculation failure on the tool_use item of a succeeded result is
\* recorded under its custom_id as "Error during calculation: <message>" and
\* counted; no exception leaves _process_tool_use.
C6_ErrorsRecorded ==
    [][(/\ HandlesHead
        /\ ShouldRecord(Head(pending), results)
        /\ CalculationFails(Head(pending).message)) =>
            /\ pc' # "raised"
            /\ Head(pending).custom_id \in DOMAIN results'
            /\ results'[Head(pending).custom_id].text = "Error during calculation: "
            /\ results'[Head(pending).custom_id].detail # <<>>
            /\ UnsupportedModulo(Head(pending).message) =>
                  results'[Head(pending).custom_id].detail
                      = <<"Unsupported operation: ", "modulo">>
            /\ processed_count' = processed_count + 1]_vars

C6_Witness ==
    /\ processed_count = 1
    /\ CustomId(0) \in DOMAIN results
    /\ results[CustomId(0)] =
          Str("Error during calculation: ", NoNum, <<"division by zero">>)

\* C7: a payload without recognizable content structure makes
\* _process_tool_use return "Error: No content in message"; it does not raise.
C7_NoContentSentinel ==
    (toolOut.kind # "idle" /\ NoRecognizableContent(message)) =>
        /\ toolOut.kind = "return"
        /\ toolOut.val = Lit("Error: No content in message")

\* C8: the builder returns one request per question, in order, the i-th
\* with custom_id "calculation_<i>" and the i-th question as its single user
\* message; custom_ids are pairwise distinct; tool schema and system
\* instruction are the same in every request.
C8_Requests ==
    batch_requests # NotBuilt =>
        /\ Len(batch_requests) = Len(questions)
        /\ \A k \in 1..Len(questions) :
              LET id == batch_requests[k].custom_id
              IN  /\ Len(id) >= 2
                  /\ id[1] = "calculation_"
                  /\ ParseDecimal(Tail(id)) = k - 1
                  /\ Len(id) > 2 => id[2] # "0"
                  /\ batch_requests[k].params.messages =
                        <<[role |-> "user", content |-> questions[k]]>>
        /\ \A j, k \in 1..Len(questions) :
              /\ j # k => batch_requests[j].custom_id # batch_requests[k].custom_id
              /\ batch_requests[j].params.tools = batch_requests[k].params.tools
              /\ batch_requests[j].params.system = batch_requests[k].params.system

C8_Witness ==
    /\ batch_requests # NotBuilt
    /\ Len(questions) > 10
    /\ questions[1] # questions[2]

\* C9: _perform_calculation agrees with the reference operators.
C9_Agrees ==
    calcOut.kind # "idle" =>
        /\ operation = "add" => calcOut = Return(PyInt(RefSum(numbers)))
        /\ (operation = "subtract" /\ numbers # <<>>) =>
              calcOut = Return(PyInt(RefSubtract(numbers)))
        /\ operation = "multiply" => calcOut = Return(PyInt(RefProduct(numbers)))
        /\ (operation = "divide" /\ numbers # <<>> /\ NoZeroDivisor(numbers)) =>
              /\ calcOut.kind = "return"
              /\ IsQuotient(calcOut.val, numbers)
        /\ (operation = "divide" /\ numbers = <<8, 2>>) =>
              calcOut = Return(Num(4, 1, TRUE))

C9_Witness ==
    /\ calcOut.kind = "return"
    /\ operation = "subtract"
    /\ Len(numbers) = 3 /\ numbers[1] # 0

\* C10: results are enumerated and recorded only in an iteration whose
\* status query returned "ended"; an iteration that saw another status goes
\* to sleep; every status query but the first follows a sleep.
C10_SleepBetweenPolls ==
    [][/\ (lastCall' = "results" /\ pc = "if_ended") => batch_status = "ended"
       /\ (results' # results \/ processed_count' # processed_count) =>
             batch_status = "ended"
       /\ (pc = "if_sleep" /\ batch_status # "ended" /\ pc' # pc) => pc' = "sleep"
       /\ (pc = "retrieve" /\ pc' # pc) => lastCall \in {"none", "sleep"}]_vars

C10_Witness ==
    /\ pc = "retrieve"
    /\ batch_status = "in_progress"
    /\ lastCall = "sleep"

=============================================================================
